---- MODULE Spec2Model ----
(***************************************************************************)
(* Model of src/src/paths.ts: the mapping between server-side XDebug file  *)
(* URIs and client-side paths.  The three exported functions are pure, so  *)
(* the state machine is a caller that picks a call (Init) and the function *)
(* that runs it (one action per function).                                 *)
(*                                                                         *)
(* A JavaScript string is a sequence of one-character strings.  Indices in *)
(* the helpers CharAt/Slice are 0-based, as in the JavaScript they model.  *)
(* The Node.js and npm functions paths.ts calls (path.posix, path.win32,   *)
(* url, file-url, urlencode, relateurl) are modelled by what they compute  *)
(* on the inputs used here: absolute or relative paths without UNC roots,  *)
(* file: URIs with an empty host and no query or fragment.                 *)
(***************************************************************************)
EXTENDS Integers, Sequences, FiniteSets, TLC

\* ------------------------------------------------------------ strings

\* `const x = v; F(x)`: v is evaluated once, before F
Bind(v, F(_)) == CHOOSE r \in {F(x) : x \in {v}} : TRUE

\* JavaScript strings
Str == Seq(STRING)

Uppers == <<"A","B","C","D","E","F","G","H","I","J","K","L","M",
            "N","O","P","Q","R","S","T","U","V","W","X","Y","Z">>
Lowers == <<"a","b","c","d","e","f","g","h","i","j","k","l","m",
            "n","o","p","q","r","s","t","u","v","w","x","y","z">>

UpperSet == {Uppers[i] : i \in 1..26}
LowerSet == {Lowers[i] : i \in 1..26}
LowerOf == [c \in UpperSet |-> Lowers[CHOOSE i \in 1..26 : Uppers[i] = c]]

IsUpper(c) == c \in UpperSet
IsLower(c) == c \in LowerSet
IsLetter(c) == IsUpper(c) \/ IsLower(c)

ToLowerChar(c) == IF c \in UpperSet THEN LowerOf[c] ELSE c

\* s.toLowerCase()
ToLowerCase(s) ==
    Bind(s, LAMBDA x : [i \in 1..Len(x) |-> ToLowerChar(x[i])])

\* s.charAt(i), 0-based; "" when i is out of range
CharAt(s, i) == IF i >= 0 /\ i < Len(s) THEN s[i + 1] ELSE ""

\* s.slice(a, b), 0-based, for 0 <= a
Slice(s, a, b) ==
    LET e == IF b > Len(s) THEN Len(s) ELSE b
    IN IF a >= e THEN <<>> ELSE SubSeq(s, a + 1, e)

SliceFrom(s, a) == Slice(s, a, Len(s))

StartsWith(s, p) == Len(s) >= Len(p) /\ SubSeq(s, 1, Len(p)) = p

EndsWith(s, p) ==
    Len(s) >= Len(p) /\ SubSeq(s, Len(s) - Len(p) + 1, Len(s)) = p

\* s.indexOf(c, i), 0-based; -1 when absent
IndexOfFrom(s, c, i) ==
    LET P == {j \in i..(Len(s) - 1) : CharAt(s, j) = c}
    IN IF P = {} THEN -1 ELSE CHOOSE j \in P : \A k \in P : j <= k

\* s.lastIndexOf(c), 0-based; -1 when absent
LastIndexOf(s, c) ==
    LET P == {j \in 0..(Len(s) - 1) : CharAt(s, j) = c}
    IN IF P = {} THEN -1 ELSE CHOOSE j \in P : \A k \in P : j >= k

\* '\' is a separator for path.win32 only
IsSepFor(win, c) == c = "/" \/ (win /\ c = "\\")

\* s.split(separator): the segments, the empty ones included
Split(s, win) ==
    Bind(s, LAMBDA x :
        LET F[i \in 1..(Len(x) + 1), cur \in Str, acc \in Seq(Str)] ==
                IF i > Len(x) THEN Append(acc, cur)
                ELSE IF IsSepFor(win, x[i]) THEN F[i + 1, <<>>, Append(acc, cur)]
                ELSE F[i + 1, Append(cur, x[i]), acc]
        IN F[1, <<>>, <<>>])

\* segs.join(sep)
Join(segs, sep) ==
    Bind(<<segs, sep>>, LAMBDA v :
        LET F[i \in 1..(Len(v[1]) + 1), acc \in Str] ==
                IF i > Len(v[1]) THEN acc
                ELSE F[i + 1, IF i = 1 THEN v[1][i] ELSE acc \o v[2] \o v[1][i]]
        IN F[1, <<>>])

\* s.replace(/\\/g, '/')
ReplaceBackslashes(s) ==
    Bind(s, LAMBDA x : [i \in 1..Len(x) |-> IF x[i] = "\\" THEN "/" ELSE x[i]])

DOTDOT == <<".", ".">>
DOT == <<".">>

\* ------------------------------------------------------------ platform

\* process.cwd() of the client process
Cwd(plat) == IF plat = "win32" THEN <<"C", ":", "\\", "w", "o", "r", "k">>
             ELSE <<"/", "w", "o", "r", "k">>

\* the working directory path.posix.resolve falls back to
PosixCwd(plat) ==
    IF plat = "win32" THEN <<"/", "w", "o", "r", "k">> ELSE Cwd(plat)

\* ------------------------------------------------------------ path

\* normalizeString(path, allowAboveRoot, separator, isPathSeparator): '.' and
\* empty segments dropped, '..' drops the segment before it
NormalizeString(path, allowAboveRoot, win) ==
    Bind(Split(path, win), LAMBDA segs :
        LET N[i \in 1..(Len(segs) + 1), res \in Seq(Str)] ==
                IF i > Len(segs) THEN res
                ELSE IF segs[i] = <<>> \/ segs[i] = DOT THEN N[i + 1, res]
                ELSE IF segs[i] = DOTDOT
                     THEN IF res # <<>> /\ res[Len(res)] # DOTDOT
                          THEN N[i + 1, SubSeq(res, 1, Len(res) - 1)]
                          ELSE IF allowAboveRoot THEN N[i + 1, Append(res, segs[i])]
                          ELSE N[i + 1, res]
                     ELSE N[i + 1, Append(res, segs[i])]
        IN Join(N[1, <<>>], IF win THEN <<"\\">> ELSE <<"/">>))

\* path.posix.resolve(...args): index 0 of the loop stands for the cwd
PosixResolve(args, plat) ==
    Bind(args, LAMBDA a :
        LET R[i \in -1..Len(a), resolvedPath \in Str] ==
                IF i < 0 THEN [p |-> resolvedPath, abs |-> FALSE]
                ELSE LET path == IF i >= 1 THEN a[i] ELSE PosixCwd(plat) IN
                     IF Len(path) = 0 THEN R[i - 1, resolvedPath]
                     ELSE IF path[1] = "/"
                          THEN [p |-> path \o <<"/">> \o resolvedPath, abs |-> TRUE]
                          ELSE R[i - 1, path \o <<"/">> \o resolvedPath]
        IN Bind(R[Len(a), <<>>], LAMBDA r :
               Bind(NormalizeString(r.p, ~r.abs, FALSE), LAMBDA n :
                   IF r.abs THEN <<"/">> \o n
                   ELSE IF Len(n) > 0 THEN n ELSE DOT)))

\* path.posix.normalize(path)
PosixNormalize(path) ==
    Bind(path, LAMBDA p :
        IF Len(p) = 0 THEN DOT
        ELSE LET isAbsolute == p[1] = "/"
                 trailingSeparator == p[Len(p)] = "/"
             IN Bind(NormalizeString(p, ~isAbsolute, FALSE), LAMBDA n :
                    IF Len(n) = 0
                    THEN (IF isAbsolute THEN <<"/">>
                          ELSE IF trailingSeparator THEN <<".", "/">> ELSE DOT)
                    ELSE (IF isAbsolute THEN <<"/">> ELSE <<>>) \o n
                         \o (IF trailingSeparator THEN <<"/">> ELSE <<>>)))

\* the comparison loop of relative(): where it stops (i) and lastCommonSep
CommonLen(from, fromStart, to, toStart, length, sep) ==
    LET F[i \in 0..length, last \in -1..length] ==
            IF i >= length THEN [i |-> i, last |-> last]
            ELSE IF CharAt(from, fromStart + i) # CharAt(to, toStart + i)
                 THEN [i |-> i, last |-> last]
                 ELSE F[i + 1, IF CharAt(from, fromStart + i) = sep THEN i ELSE last]
    IN F[0, -1]

\* the loop of relative() that emits one '..' per remaining segment of `from`
UpLevels(from, start, fromEnd, sep) ==
    LET F[i \in 0..(fromEnd + 1), out \in Str] ==
            IF i > fromEnd THEN out
            ELSE IF i = fromEnd \/ CharAt(from, i) = sep
                 THEN F[i + 1, IF Len(out) = 0 THEN DOTDOT ELSE out \o <<sep>> \o DOTDOT]
                 ELSE F[i + 1, out]
    IN IF start > fromEnd THEN <<>> ELSE F[start, <<>>]

\* path.posix.relative(from, to)
PosixRelative(from0, to0, plat) ==
    Bind(<<from0, to0>>, LAMBDA a :
        IF a[1] = a[2] THEN <<>>
        ELSE Bind(<<PosixResolve(<<a[1]>>, plat), PosixResolve(<<a[2]>>, plat)>>, LAMBDA ft :
            LET from == ft[1]
                to == ft[2]
                fromStart == 1
                fromEnd == Len(from)
                fromLen == fromEnd - fromStart
                toStart == 1
                toLen == Len(to) - toStart
                length == IF fromLen < toLen THEN fromLen ELSE toLen
            IN IF from = to THEN <<>>
               ELSE Bind(CommonLen(from, fromStart, to, toStart, length, "/"), LAMBDA c :
                   LET i == c.i
                       lastCommonSep ==
                           IF i = length /\ ~(toLen > length) /\ fromLen > length
                           THEN (IF CharAt(from, fromStart + i) = "/" THEN i
                                 ELSE IF i = 0 THEN 0 ELSE c.last)
                           ELSE c.last
                   IN IF i = length /\ toLen > length /\ CharAt(to, toStart + i) = "/"
                      THEN SliceFrom(to, toStart + i + 1)
                      ELSE IF i = length /\ toLen > length /\ i = 0
                      THEN SliceFrom(to, toStart + i)
                      ELSE UpLevels(from, fromStart + lastCommonSep + 1, fromEnd, "/")
                           \o SliceFrom(to, toStart + lastCommonSep))))

\* the root of a Windows path: [rootEnd, device, isAbsolute] (no UNC roots)
Win32Root(path) ==
    IF Len(path) >= 1 /\ IsSepFor(TRUE, path[1])
    THEN [rootEnd |-> 1, device |-> <<>>, isAbsolute |-> TRUE]
    ELSE IF Len(path) >= 2 /\ IsLetter(path[1]) /\ path[2] = ":"
         THEN IF Len(path) > 2 /\ IsSepFor(TRUE, path[3])
              THEN [rootEnd |-> 3, device |-> SubSeq(path, 1, 2), isAbsolute |-> TRUE]
              ELSE [rootEnd |-> 2, device |-> SubSeq(path, 1, 2), isAbsolute |-> FALSE]
         ELSE [rootEnd |-> 0, device |-> <<>>, isAbsolute |-> FALSE]

\* the working directory win32.resolve uses once a drive is known
DriveCwd(plat, resolvedDevice) ==
    LET path == Cwd(plat) IN
    IF ToLowerCase(Slice(path, 0, 2)) # ToLowerCase(resolvedDevice)
       /\ CharAt(path, 2) = "\\"
    THEN resolvedDevice \o <<"\\">>
    ELSE path

\* path.win32.resolve(...args): index 0 of the loop stands for the cwd
Win32Resolve(args, plat) ==
    Bind(args, LAMBDA a :
        LET R[i \in -1..Len(a), resolvedDevice \in Str, resolvedTail \in Str,
              resolvedAbsolute \in BOOLEAN] ==
                IF i < 0
                THEN [device |-> resolvedDevice, tail |-> resolvedTail,
                      abs |-> resolvedAbsolute]
                ELSE LET path == IF i >= 1 THEN a[i]
                                 ELSE IF Len(resolvedDevice) = 0 THEN Cwd(plat)
                                 ELSE DriveCwd(plat, resolvedDevice)
                         r == Win32Root(path)
                         dev == IF Len(r.device) > 0 /\ Len(resolvedDevice) = 0
                                THEN r.device ELSE resolvedDevice
                     IN IF i >= 1 /\ Len(path) = 0
                        THEN R[i - 1, resolvedDevice, resolvedTail, resolvedAbsolute]
                        ELSE IF Len(r.device) > 0 /\ Len(resolvedDevice) > 0
                                /\ ToLowerCase(r.device) # ToLowerCase(resolvedDevice)
                        THEN R[i - 1, resolvedDevice, resolvedTail, resolvedAbsolute]
                        ELSE IF resolvedAbsolute
                        THEN (IF Len(dev) > 0
                              THEN [device |-> dev, tail |-> resolvedTail, abs |-> TRUE]
                              ELSE R[i - 1, dev, resolvedTail, TRUE])
                        ELSE IF r.isAbsolute /\ Len(dev) > 0
                        THEN [device |-> dev,
                              tail |-> SliceFrom(path, r.rootEnd) \o <<"\\">> \o resolvedTail,
                              abs |-> TRUE]
                        ELSE R[i - 1, dev,
                               SliceFrom(path, r.rootEnd) \o <<"\\">> \o resolvedTail,
                               r.isAbsolute]
        IN Bind(R[Len(a), <<>>, <<>>, FALSE], LAMBDA r :
               Bind(NormalizeString(r.tail, ~r.abs, TRUE), LAMBDA tail :
                   IF r.abs THEN r.device \o <<"\\">> \o tail
                   ELSE IF Len(r.device \o tail) > 0 THEN r.device \o tail ELSE DOT)))

\* path.win32.normalize(path)
Win32Normalize(path) ==
    Bind(path, LAMBDA p :
        IF Len(p) = 0 THEN DOT
        ELSE Bind(Win32Root(p), LAMBDA r :
            Bind(IF r.rootEnd < Len(p)
                 THEN NormalizeString(SliceFrom(p, r.rootEnd), ~r.isAbsolute, TRUE)
                 ELSE <<>>, LAMBDA t0 :
                LET t1 == IF Len(t0) = 0 /\ ~r.isAbsolute THEN DOT ELSE t0
                    tail == IF Len(t1) > 0 /\ IsSepFor(TRUE, p[Len(p)])
                            THEN t1 \o <<"\\">> ELSE t1
                IN IF r.isAbsolute THEN r.device \o <<"\\">> \o tail
                   ELSE r.device \o tail)))

\* the first index >= 0 of s that holds no backslash
SkipBackslashes(s) ==
    LET P == {j \in 0..Len(s) : j = Len(s) \/ CharAt(s, j) # "\\"}
    IN CHOOSE j \in P : \A k \in P : j <= k

\* the end of s with its trailing backslashes dropped, never below start + 1
TrimBackslashes(s, start) ==
    LET P == {e \in 0..Len(s) :
                 /\ \A j \in e..(Len(s) - 1) : CharAt(s, j) = "\\" /\ j > start
                 /\ ~(e - 1 > start /\ CharAt(s, e - 1) = "\\")}
    IN CHOOSE e \in P : \A k \in P : e >= k

\* path.win32.relative(from, to)
Win32Relative(from0, to0, plat) ==
    Bind(<<from0, to0>>, LAMBDA a :
        IF a[1] = a[2] THEN <<>>
        ELSE Bind(<<Win32Resolve(<<a[1]>>, plat), Win32Resolve(<<a[2]>>, plat)>>, LAMBDA o :
          Bind(<<ToLowerCase(o[1]), ToLowerCase(o[2])>>, LAMBDA l :
            LET fromOrig == o[1]
                toOrig == o[2]
                from == l[1]
                to == l[2]
            IN IF fromOrig = toOrig \/ from = to THEN <<>>
               ELSE Bind(<<SkipBackslashes(from), SkipBackslashes(to)>>, LAMBDA st :
                 Bind(<<TrimBackslashes(from, st[1]), TrimBackslashes(to, st[2])>>, LAMBDA en :
                   LET fromStart == st[1]
                       toStart == st[2]
                       fromEnd == en[1]
                       toEnd == en[2]
                       fromLen == fromEnd - fromStart
                       toLen == toEnd - toStart
                       length == IF fromLen < toLen THEN fromLen ELSE toLen
                   IN Bind(CommonLen(from, fromStart, to, toStart, length, "\\"), LAMBDA c :
                       LET i == c.i
                           sep0 == IF fromLen > length
                                   THEN (IF CharAt(from, fromStart + i) = "\\" THEN i
                                         ELSE IF i = 2 THEN 3 ELSE c.last)
                                   ELSE c.last
                           lastCommonSep == IF i # length THEN c.last
                                            ELSE IF sep0 = -1 THEN 0 ELSE sep0
                           toStart2 == toStart + lastCommonSep
                       IN IF i # length /\ c.last = -1 THEN toOrig
                          ELSE IF i = length /\ toLen > length
                                  /\ CharAt(to, toStart + i) = "\\"
                          THEN SliceFrom(toOrig, toStart + i + 1)
                          ELSE IF i = length /\ toLen > length /\ i = 2
                          THEN SliceFrom(toOrig, toStart + i)
                          ELSE Bind(UpLevels(from, fromStart + lastCommonSep + 1,
                                             fromEnd, "\\"), LAMBDA out :
                              IF Len(out) > 0
                              THEN out \o Slice(toOrig, toStart2, toEnd)
                              ELSE IF CharAt(toOrig, toStart2) = "\\"
                              THEN Slice(toOrig, toStart2 + 1, toEnd)
                              ELSE Slice(toOrig, toStart2, toEnd))))))))

\* `path` is path.win32 on a Windows client and path.posix elsewhere
PathRelative(plat, from, to) ==
    IF plat = "win32" THEN Win32Relative(from, to, plat) ELSE PosixRelative(from, to, plat)

PathResolve(plat, args) ==
    IF plat = "win32" THEN Win32Resolve(args, plat) ELSE PosixResolve(args, plat)

\* path.normalize, were it to return its argument as it is
PathNormalizeNone(plat, path) == path

PathNormalize(plat, path) ==
    IF plat = "win32" THEN Win32Normalize(path) ELSE PosixNormalize(path)

\* ------------------------------------------------------------ url, file-url, urlencode

FILE_SCHEME == <<"f", "i", "l", "e", ":", "/", "/">>

\* url.parse(uri).pathname of a file: URI; '\' is read as '/'
UrlPathname(uri) ==
    Bind(ReplaceBackslashes(SliceFrom(uri, Len(FILE_SCHEME))), LAMBDA rest :
        Bind(IndexOfFrom(rest, "/", 0), LAMBDA slash :
            IF slash = -1 THEN <<>> ELSE SliceFrom(rest, slash)))

\* the octets the file names of this model use
HexChar(h, l) ==
    IF h = "2" /\ l = "0" THEN " "
    ELSE IF h = "2" /\ l = "5" THEN "%"
    ELSE IF h = "2" /\ l = "3" THEN "#"
    ELSE "?"

\* urlencode's decode(str): decodeURIComponent
decode(s) ==
    Bind(s, LAMBDA x :
        LET F[i \in 1..(Len(x) + 1), acc \in Str] ==
                IF i > Len(x) THEN acc
                ELSE IF x[i] = "%" /\ i + 2 <= Len(x)
                     THEN F[i + 3, Append(acc, HexChar(x[i + 1], x[i + 2]))]
                     ELSE F[i + 1, Append(acc, x[i])]
        IN F[1, <<>>])

\* encodeURI(s), then file-url's escape of '?' and '#'
EncodeURI(s) ==
    Bind(s, LAMBDA x :
        LET F[i \in 1..(Len(x) + 1), acc \in Str] ==
                IF i > Len(x) THEN acc
                ELSE F[i + 1, acc \o (IF x[i] = " " THEN <<"%", "2", "0">>
                                      ELSE IF x[i] = "%" THEN <<"%", "2", "5">>
                                      ELSE IF x[i] = "#" THEN <<"%", "2", "3">>
                                      ELSE IF x[i] = "?" THEN <<"%", "3", "F">>
                                      ELSE <<x[i]>>)]
        IN F[1, <<>>])

\* fileUrl(filePath, { resolve: false })
fileUrl(filePath) ==
    Bind(ReplaceBackslashes(filePath), LAMBDA p0 :
        EncodeURI(FILE_SCHEME \o (IF CharAt(p0, 0) # "/" THEN <<"/">> ELSE <<>>) \o p0))

\* url.resolve's backward pass over the merged segments: '.' dropped, '..'
\* drops the nearest segment before it
ResolveBack(srcPath) ==
    LET B[i \in 0..Len(srcPath), up \in 0..Len(srcPath), acc \in Seq(Str)] ==
            IF i = 0 THEN acc
            ELSE IF srcPath[i] = DOT THEN B[i - 1, up, acc]
            ELSE IF srcPath[i] = DOTDOT THEN B[i - 1, up + 1, acc]
            ELSE IF up > 0 THEN B[i - 1, up - 1, acc]
            ELSE B[i - 1, up, <<srcPath[i]>> \o acc]
    IN B[Len(srcPath), 0, <<>>]

\* whether url.parse reads a scheme at the start of a reference
HasScheme(rel) ==
    LET colon == IndexOfFrom(rel, ":", 0) IN
    colon > 0 /\ \A i \in 0..(colon - 1) : IsLetter(CharAt(rel, i))

\* url.resolve(base, relative) for a file: base and a path-only reference
urlResolve(base, relative) ==
    Bind(<<base, relative>>, LAMBDA v :
        IF v[2] = <<>> THEN v[1]
        ELSE IF HasScheme(v[2]) THEN v[2]
        ELSE Bind(<<Split(UrlPathname(v[1]), FALSE), Split(v[2], FALSE)>>, LAMBDA sp :
            Bind(IF CharAt(v[2], 0) = "/" THEN sp[2]
                 ELSE SubSeq(sp[1], 1, Len(sp[1]) - 1) \o sp[2], LAMBDA merged :
                Bind(ResolveBack(merged), LAMBDA kept :
                    LET last == merged[Len(merged)]
                        hasTrailingSlash ==
                            (Len(merged) > 1 /\ (last = DOT \/ last = DOTDOT))
                            \/ last = <<>>
                        rooted == IF kept = <<>> \/ kept[1] # <<>>
                                  THEN <<(<<>>)>> \o kept ELSE kept
                    IN Bind(Join(rooted, <<"/">>), LAMBDA pathname0 :
                           FILE_SCHEME \o pathname0
                           \o (IF hasTrailingSlash /\ ~EndsWith(pathname0, <<"/">>)
                               THEN <<"/">> ELSE <<>>))))))

\* ------------------------------------------------------------ relateurl

\* relateurl's default options.directoryIndexes
INDEX_HTML == <<"i", "n", "d", "e", "x", ".", "h", "t", "m", "l">>

\* splitPath(path): the directories of "/dir/dir/", the empty ones dropped
SplitPath(path) ==
    Bind(Split(path, FALSE), LAMBDA segs :
        LET F[i \in 1..(Len(segs) + 1), acc \in Seq(Str)] ==
                IF i > Len(segs) THEN acc
                ELSE F[i + 1, IF segs[i] = <<>> THEN acc ELSE Append(acc, segs[i])]
        IN F[1, <<>>])

\* resolveDotSegments(pathArray)
ResolveDotSegments(pathArray) ==
    LET F[i \in 1..(Len(pathArray) + 1), acc \in Seq(Str)] ==
            IF i > Len(pathArray) THEN acc
            ELSE IF pathArray[i] = DOTDOT
                 THEN F[i + 1, IF acc = <<>> THEN acc ELSE SubSeq(acc, 1, Len(acc) - 1)]
            ELSE IF pathArray[i] = DOT THEN F[i + 1, acc]
            ELSE F[i + 1, Append(acc, pathArray[i])]
    IN F[1, <<>>]

\* relateurl's parse of a URL's path: its directories (dot segments resolved)
\* and its resource, the text after the last '/'
ParseUrlPath(uri) ==
    Bind(UrlPathname(uri), LAMBDA path :
        Bind(LastIndexOf(path, "/"), LAMBDA lastSlash :
            LET tail == SliceFrom(path, lastSlash + 1)
                isRes == Len(tail) > 0 /\ tail # DOT /\ tail # DOTDOT
                dirString == IF isRes THEN Slice(path, 0, lastSlash + 1) ELSE path
            IN Bind(SplitPath(dirString), LAMBDA dirs :
                   [array |-> ResolveDotSegments(dirs),
                    resource |-> IF isRes THEN tail ELSE <<>>])))

\* relatePath(absolutePath, siteAbsolutePath): one '..' per directory of the
\* site below the common parents, then the rest of the path
RelatePath(absolutePath, siteAbsolutePath) ==
    LET K == {k \in 0..Len(siteAbsolutePath) :
                 \A j \in 1..k : j <= Len(absolutePath)
                                 /\ absolutePath[j] = siteAbsolutePath[j]}
        k == CHOOSE k \in K : \A m \in K : k >= m
    IN [i \in 1..(Len(siteAbsolutePath) - k) |-> DOTDOT]
        \o SubSeq(absolutePath, k + 1, Len(absolutePath))

\* options.removeDirectoryIndexes, which RELATE_URL_OPTIONS leaves at its default
RemoveDirectoryIndexes == TRUE

\* relativeUrl(from, to) = RelateUrl.relate(from, to, RELATE_URL_OPTIONS) for two
\* file: URIs with the same (empty) host
relativeUrl(from, to) ==
    Bind(<<ParseUrlPath(from), ParseUrlPath(to)>>, LAMBDA p :
        Bind(RelatePath(p[2].array, p[1].array), LAMBDA rel :
            LET site == p[1]
                url == p[2]
                resourceIsIndex == url.resource = INDEX_HTML
                siteIsIndex == site.resource = INDEX_HTML
                minimumResource ==
                    url.array = site.array
                    /\ (url.resource = site.resource
                        \/ (url.resource = <<>> /\ siteIsIndex)
                        \/ (resourceIsIndex /\ site.resource = <<>>))
                showResource ==
                    url.resource # <<>> /\ ~minimumResource
                    /\ ~(RemoveDirectoryIndexes /\ resourceIsIndex)
            IN (IF rel = <<>> THEN <<>> ELSE Join(rel, <<"/">>) \o <<"/">>)
               \o (IF showResource THEN url.resource ELSE <<>>)))

\* ------------------------------------------------------------ paths.ts

\* the value of a variable that was never assigned
Undefined == <<"undefined">>

\* JavaScript truthiness of a string | undefined
Truthy(v) == v # Undefined /\ Len(v) > 0

\* /^\/[a-zA-Z]:\//.test(serverPath)
ServerIsWindows(serverPath) ==
    Len(serverPath) >= 4 /\ serverPath[1] = "/" /\ IsLetter(serverPath[2])
    /\ serverPath[3] = ":" /\ serverPath[4] = "/"

\* the decoded path of the URI, were the leading slash of a Windows path kept
ServerPathOfUnstripped(fileUri) == decode(UrlPathname(fileUri))

\* the decoded path of the URI, its leading slash stripped from a Windows path
ServerPathOf(fileUri) ==
    Bind(decode(UrlPathname(fileUri)), LAMBDA serverPath :
        IF ServerIsWindows(serverPath) THEN SliceFrom(serverPath, 1) ELSE serverPath)

\* (serverIsWindows ? path.win32 : path.posix).relative(from, to)
ServerRelative(serverIsWindows, plat, from, to) ==
    IF serverIsWindows THEN Win32Relative(from, to, plat) ELSE PosixRelative(from, to, plat)

\* serverRelative.indexOf('..') !== 0
NotAbove(relative) == Bind(relative, LAMBDA r : ~StartsWith(r, DOTDOT))

\* the for loop of convertDebuggerPathToClient, were it to go on after a match
\* and keep the last one
ServerLoopLast(entries, serverPath, serverIsWindows, plat) ==
    LET F[k \in 0..Len(entries)] ==
            IF k = 0 THEN 0
            ELSE IF NotAbove(ServerRelative(serverIsWindows, plat,
                                            entries[k].server, serverPath))
                 THEN k
                 ELSE F[k - 1]
    IN F[Len(entries)]

\* the for loop of convertDebuggerPathToClient: the index of the entry it
\* breaks on, 0 when it runs to the end
ServerLoop(entries, serverPath, serverIsWindows, plat) ==
    LET F[k \in 1..(Len(entries) + 1)] ==
            IF k > Len(entries) THEN 0
            ELSE IF NotAbove(ServerRelative(serverIsWindows, plat,
                                            entries[k].server, serverPath))
                 THEN k
                 ELSE F[k + 1]
    IN F[1]

\* the substitution of convertDebuggerPathToClient once a root is chosen
ServerToLocal(serverIsWindows, plat, serverSourceRoot, localSourceRoot, serverPath) ==
    Bind(ServerRelative(serverIsWindows, plat, serverSourceRoot, serverPath),
         LAMBDA pathRelativeToSourceRoot :
             PathResolve(plat, <<localSourceRoot, pathRelativeToSourceRoot>>))

convertDebuggerPathToClient(fileUri, pathMapping, plat) ==
    Bind(<<decode(UrlPathname(fileUri)), ServerPathOf(fileUri), pathMapping>>, LAMBDA v :
        LET serverIsWindows == ServerIsWindows(v[1])
            serverPath == v[2]
            mapping == v[3]
        IN Bind(IF mapping.given
                THEN ServerLoop(mapping.entries, serverPath, serverIsWindows, plat)
                ELSE 0, LAMBDA k :
            LET serverSourceRoot == IF k = 0 THEN Undefined ELSE mapping.entries[k].server
                localSourceRoot == IF k = 0 THEN Undefined ELSE mapping.entries[k].local
            IN [serverSourceRoot |-> serverSourceRoot,
                localSourceRoot |-> localSourceRoot,
                result |->
                    IF Truthy(serverSourceRoot) /\ Truthy(localSourceRoot)
                    THEN ServerToLocal(serverIsWindows, plat, serverSourceRoot,
                                       localSourceRoot, serverPath)
                    ELSE PathNormalize(plat, serverPath)]))

\* s.replace(/^[A-Z]:\\/, match => match.toLowerCase())
LowerDrive(s) ==
    IF Len(s) >= 3 /\ IsUpper(s[1]) /\ s[2] = ":" /\ s[3] = "\\"
    THEN <<ToLowerChar(s[1])>> \o Tail(s)
    ELSE s

\* the for loop of convertClientPathToDebugger
ClientLoop(entries, localPath, plat) ==
    LET F[k \in 1..(Len(entries) + 1)] ==
            IF k > Len(entries) THEN 0
            ELSE IF NotAbove(PathRelative(plat, entries[k].local, localPath))
                 THEN k
                 ELSE F[k + 1]
    IN F[1]

\* fileUrl(root, { resolve: false }), a '/' appended when it ends with none
DirectoryUrl(root) ==
    Bind(fileUrl(root), LAMBDA u : IF EndsWith(u, <<"/">>) THEN u ELSE u \o <<"/">>)

\* the substitution of convertClientPathToDebugger once a root is chosen
LocalToServer(serverSourceRoot, localSourceRoot, localFileUri) ==
    Bind(<<DirectoryUrl(localSourceRoot), DirectoryUrl(serverSourceRoot)>>, LAMBDA u :
        Bind(relativeUrl(u[1], localFileUri), LAMBDA urlRelativeToSourceRoot :
            urlResolve(u[2], urlRelativeToSourceRoot)))

convertClientPathToDebugger(localPath0, pathMapping, plat) ==
    Bind(<<localPath0, pathMapping>>, LAMBDA v :
        LET localPath == v[1]
            mapping == v[2]
        IN Bind(<<fileUrl(LowerDrive(localPath)),
                  IF mapping.given THEN ClientLoop(mapping.entries, localPath, plat)
                  ELSE 0>>, LAMBDA w :
            LET localFileUri == w[1]
                k == w[2]
                localSourceRoot == IF k = 0 THEN Undefined
                                   ELSE LowerDrive(mapping.entries[k].local)
                serverSourceRoot == IF k = 0 THEN Undefined
                                    ELSE LowerDrive(mapping.entries[k].server)
            IN [serverSourceRoot |-> serverSourceRoot,
                localSourceRoot |-> localSourceRoot,
                result |->
                    IF Truthy(serverSourceRoot) /\ Truthy(localSourceRoot)
                    THEN LocalToServer(serverSourceRoot, localSourceRoot, localFileUri)
                    ELSE localFileUri]))

\* /^file:\/\/\/[a-zA-Z]:\//.test(path)
isWindowsUri(path) ==
    Len(path) >= 11 /\ SubSeq(path, 1, 8) = FILE_SCHEME \o <<"/">>
    /\ IsLetter(path[9]) /\ path[10] = ":" /\ path[11] = "/"

\* isSameUri, were it to ignore case only when both URIs are Windows URIs
isSameUriBoth(clientUri, debuggerUri) ==
    IF isWindowsUri(clientUri) /\ isWindowsUri(debuggerUri)
    THEN ToLowerCase(debuggerUri) = ToLowerCase(clientUri)
    ELSE debuggerUri = clientUri

isSameUri(clientUri, debuggerUri) ==
    IF isWindowsUri(clientUri) \/ isWindowsUri(debuggerUri)
    THEN ToLowerCase(debuggerUri) = ToLowerCase(clientUri)
    ELSE debuggerUri = clientUri

\* ------------------------------------------------------------ the callers' inputs

\* the longest path below a base directory, in segments
MaxDepth == 2
\* the most entries of a pathMapping
MaxEntries == 2

\* file and directory names below the base directories
Names ==
    {<<"s", "i", "t", "e">>,
     <<"i", "n", "d", "e", "x", ".", "h", "t", "m", "l">>,
     <<".", ".", "c", "a", "c", "h", "e">>}

\* the sequences over S of length at most n
SeqsUpTo(S, n) == UNION {[1..k -> S] : k \in 0..n}

Tails == SeqsUpTo(Names, MaxDepth)

\* base/seg1/seg2/..., with the separator sep
Below(base, tail, sep) == Join(<<base>> \o tail, sep)

\* the directories the server reports files in, as file: URIs
ServerBases ==
    {<<"f", "i", "l", "e", ":", "/", "/", "/", "v", "a", "r", "/", "w", "w", "w">>,
     <<"f", "i", "l", "e", ":", "/", "/", "/", "C", ":", "/", "i", "n", "e", "t", "p", "u", "b">>,
     <<"f", "i", "l", "e", ":", "/", "/", "/", "c", ":", "/", "I", "n", "e", "t", "p", "u", "b">>}

\* server URIs with '.', '..', a doubled or a trailing '/' and escaped octets
\* in them, and the ones the documentation gives as examples
OtherUris ==
    {<<"f", "i", "l", "e", ":", "/", "/", "/", "v", "a", "r", "/", "w", "w", "w", "/", ".", "/", "s", "i", "t", "e", "/", ".", ".", "/", "i", "n", "d", "e", "x", ".", "p", "h", "p">>,
     <<"f", "i", "l", "e", ":", "/", "/", "/", "v", "a", "r", "/", "/", "w", "w", "w", "/", "s", "i", "t", "e", "/">>,
     <<"f", "i", "l", "e", ":", "/", "/", "/", "C", ":", "/", "i", "n", "e", "t", "p", "u", "b", "/", "s", "i", "t", "e", "/", ".", ".", "/", "i", "n", "d", "e", "x", ".", "p", "h", "p">>,
     <<"f", "i", "l", "e", ":", "/", "/", "/", "v", "a", "r", "/", "w", "w", "w", "/", ".", ".", "/", "s", "r", "v", "/", "i", "n", "d", "e", "x", ".", "p", "h", "p">>,
     <<"f", "i", "l", "e", ":", "/", "/", "/", "v", "a", "r", "/", "w", "w", "w", "/", "M", "y", "%", "2", "0", "D", "o", "c", "s", "/", "a", ".", "p", "h", "p">>,
     <<"f", "i", "l", "e", ":", "/", "/", "/", "v", "a", "r", "/", "w", "w", "w", "/", "s", "r", "c", "/", "a", ".", "p", "h", "p">>,
     <<"f", "i", "l", "e", ":", "/", "/", "/", "C", ":", "/", "i", "n", "e", "t", "p", "u", "b", "/", "s", "i", "t", "e", "/", "i", "n", "d", "e", "x", ".", "p", "h", "p">>,
     <<"f", "i", "l", "e", ":", "/", "/", "/", "D", ":", "/", "i", "n", "e", "t", "p", "u", "b", "/", "s", "i", "t", "e">>}

ServerUris ==
    {Below(b, t, <<"/">>) : b \in ServerBases, t \in Tails} \cup OtherUris

\* the directories the editor opens files in
ClientBases(plat) ==
    IF plat = "win32"
    THEN {<<"C", ":", "\\", "w", "a", "m", "p", "\\", "w", "w", "w">>,
          <<"c", ":", "\\", "W", "A", "M", "P", "\\", "w", "w", "w">>,
          <<"C", ":", "\\", "o", "t", "h", "e", "r">>}
    ELSE {<<"/", "h", "o", "m", "e", "/", "u", "s", "e", "r", "/", "p", "r", "o", "j", "e", "c", "t">>,
          <<"/", "o", "p", "t">>}

\* client paths with a space or a trailing separator in them, and the ones
\* the documentation gives as examples
OtherPaths(plat) ==
    IF plat = "win32"
    THEN {<<"C", ":", "\\", "U", "s", "e", "r", "s", "\\", "m", "e", "\\", "i", "n", "d", "e", "x", ".", "p", "h", "p">>,
          <<"D", ":", "\\", "w", "a", "m", "p", "\\", "s", "i", "t", "e">>,
          <<"C", ":", "\\", "w", "a", "m", "p", "\\", "w", "w", "w", "\\", "M", "y", " ", "D", "o", "c", "s", "\\", "a", ".", "p", "h", "p">>,
          <<"C", ":", "\\", "w", "a", "m", "p", "\\", "w", "w", "w", "\\", "s", "i", "t", "e", "\\">>}
    ELSE {<<"/", "h", "o", "m", "e", "/", "u", "s", "e", "r", "/", "p", "r", "o", "j", "e", "c", "t", "/", "s", "r", "c", "/", "a", ".", "p", "h", "p">>,
          <<"/", "h", "o", "m", "e", "/", "u", "s", "e", "r", "/", "p", "r", "o", "j", "e", "c", "t", "/", "M", "y", " ", "D", "o", "c", "s", "/", "a", ".", "p", "h", "p">>,
          <<"/", "h", "o", "m", "e", "/", "u", "s", "e", "r", "/", "p", "r", "o", "j", "e", "c", "t", "/", "s", "i", "t", "e", "/">>}

ClientSep(plat) == IF plat = "win32" THEN <<"\\">> ELSE <<"/">>

ClientPaths(plat) ==
    {Below(b, t, ClientSep(plat)) : b \in ClientBases(plat), t \in Tails}
        \cup OtherPaths(plat)

\* the pathMapping entries a launch configuration may hold, by client platform
Entries(plat) ==
    IF plat = "win32"
    THEN {[server |-> <<"/", "v", "a", "r", "/", "w", "w", "w">>,
            local |-> <<"C", ":", "\\", "w", "a", "m", "p", "\\", "w", "w", "w", "\\", "s", "i", "t", "e">>],
          [server |-> <<"C", ":", "\\", "i", "n", "e", "t", "p", "u", "b">>,
            local |-> <<"C", ":", "\\", "w", "a", "m", "p", "\\", "w", "w", "w">>],
          [server |-> <<"/", "C", ":", "/", "i", "n", "e", "t", "p", "u", "b">>,
            local |-> <<"C", ":", "\\", "w", "a", "m", "p", "\\", "w", "w", "w">>],
          [server |-> <<"C", ":", "/", "i", "n", "e", "t", "p", "u", "b">>,
            local |-> <<"C", ":", "\\", "w", "a", "m", "p", "\\", "w", "w", "w">>]}
    ELSE {[server |-> <<"/", "v", "a", "r", "/", "w", "w", "w">>,
            local |-> <<"/", "h", "o", "m", "e", "/", "u", "s", "e", "r", "/", "p", "r", "o", "j", "e", "c", "t">>],
          [server |-> <<"/", "v", "a", "r", "/", "w", "w", "w", "/", "s", "i", "t", "e">>,
            local |-> <<"/", "o", "p", "t">>],
          [server |-> <<"C", ":", "\\", "i", "n", "e", "t", "p", "u", "b">>,
            local |-> <<"/", "h", "o", "m", "e", "/", "u", "s", "e", "r", "/", "p", "r", "o", "j", "e", "c", "t">>]}

\* Object.keys(pathMapping) lists each key once, in insertion order
DistinctKeys(entries) ==
    \A i, j \in 1..Len(entries) : i # j => entries[i].server # entries[j].server

NoMapping == [given |-> FALSE, entries |-> <<>>]

Mappings(plat) ==
    {NoMapping} \cup
    {[given |-> TRUE, entries |-> e] :
        e \in {x \in SeqsUpTo(Entries(plat), MaxEntries) : DistinctKeys(x)}}

\* the URIs isSameUri is asked about
SameUris ==
    {<<"f", "i", "l", "e", ":", "/", "/", "/", "C", ":", "/", "F", "o", "o", "/", "B", "a", "r", ".", "p", "h", "p">>,
     <<"f", "i", "l", "e", ":", "/", "/", "/", "c", ":", "/", "f", "o", "o", "/", "b", "a", "r", ".", "p", "h", "p">>,
     <<"f", "i", "l", "e", ":", "/", "/", "/", "h", "o", "m", "e", "/", "F", "o", "o", ".", "p", "h", "p">>,
     <<"f", "i", "l", "e", ":", "/", "/", "/", "h", "o", "m", "e", "/", "f", "o", "o", ".", "p", "h", "p">>,
     <<"F", "I", "L", "E", ":", "/", "/", "/", "C", ":", "/", "f", "o", "o", "/", "b", "a", "r", ".", "p", "h", "p">>,
     <<"f", "i", "l", "e", ":", "/", "/", "C", ":", "/", "F", "o", "o", "/", "B", "a", "r", ".", "p", "h", "p">>,
     <<"f", "i", "l", "e", ":", "/", "/", "/", "C", ":", "F", "o", "o", "/", "B", "a", "r", ".", "p", "h", "p">>,
     <<"f", "i", "l", "e", ":", "/", "/", "/", "c", ":", "/", "f", "o", "o", "/", "b", "a", "r", ".", "P", "H", "P">>}

\* ------------------------------------------------------------ the state machine

VARIABLES
    platform,           \* process.platform of the client: "win32" or "posix"
    fn,                 \* the function the caller calls
    arg,                \* its first argument: fileUri, localPath or clientUri
    arg2,               \* debuggerUri, for isSameUri
    pathMapping,        \* its pathMapping argument
    pc,                 \* "call", "return", or "back" after the return trip
    ret,                \* the string returned
    same,               \* the boolean isSameUri returned
    serverSourceRoot,   \* the function's local of that name when it returns
    localSourceRoot,    \* the function's local of that name when it returns
    back                \* convertDebuggerPathToClient(ret, pathMapping)

vars == <<platform, fn, arg, arg2, pathMapping, pc, ret, same,
          serverSourceRoot, localSourceRoot, back>>

Init ==
    /\ platform \in {"posix", "win32"}
    /\ fn \in {"convertDebuggerPathToClient", "convertClientPathToDebugger", "isSameUri"}
    /\ pathMapping \in (IF fn = "isSameUri" THEN {NoMapping} ELSE Mappings(platform))
    /\ arg \in (IF fn = "convertDebuggerPathToClient" THEN ServerUris
                ELSE IF fn = "convertClientPathToDebugger" THEN ClientPaths(platform)
                ELSE SameUris)
    /\ arg2 \in (IF fn = "isSameUri" THEN SameUris ELSE {Undefined})
    /\ pc = "call"
    /\ ret = Undefined
    /\ same = FALSE
    /\ serverSourceRoot = Undefined
    /\ localSourceRoot = Undefined
    /\ back = Undefined

ConvertDebuggerPathToClient ==
    /\ pc = "call"
    /\ fn = "convertDebuggerPathToClient"
    /\ LET r == convertDebuggerPathToClient(arg, pathMapping, platform) IN
        /\ ret' = r.result
        /\ serverSourceRoot' = r.serverSourceRoot
        /\ localSourceRoot' = r.localSourceRoot
    /\ pc' = "return"
    /\ UNCHANGED <<platform, fn, arg, arg2, pathMapping, same, back>>

ConvertClientPathToDebugger ==
    /\ pc = "call"
    /\ fn = "convertClientPathToDebugger"
    /\ LET r == convertClientPathToDebugger(arg, pathMapping, platform) IN
        /\ ret' = r.result
        /\ serverSourceRoot' = r.serverSourceRoot
        /\ localSourceRoot' = r.localSourceRoot
    /\ pc' = "return"
    /\ UNCHANGED <<platform, fn, arg, arg2, pathMapping, same, back>>

IsSameUri ==
    /\ pc = "call"
    /\ fn = "isSameUri"
    /\ same' = isSameUri(arg, arg2)
    /\ pc' = "return"
    /\ UNCHANGED <<platform, fn, arg, arg2, pathMapping, ret,
                   serverSourceRoot, localSourceRoot, back>>

\* the caller converts the URI it got back to a client path again
ConvertBack ==
    /\ pc = "return"
    /\ fn = "convertClientPathToDebugger"
    /\ back' = convertDebuggerPathToClient(ret, pathMapping, platform).result
    /\ pc' = "back"
    /\ UNCHANGED <<platform, fn, arg, arg2, pathMapping, ret, same,
                   serverSourceRoot, localSourceRoot>>

Next ==
    \/ ConvertDebuggerPathToClient
    \/ ConvertClientPathToDebugger
    \/ IsSameUri
    \/ ConvertBack

Spec == Init /\ [][Next]_vars

\* ------------------------------------------------------------ the vocabulary of the properties

\* The properties compare what the functions return with paths put together
\* from directory names, without path.relative, path.resolve or relateurl.

\* the names along a path: empty names and '.' dropped, 'x/..' cancelled
Segments(p, win) ==
    Bind(Split(p, win), LAMBDA raw :
        LET C[i \in 1..(Len(raw) + 1), acc \in Seq(Str)] ==
                IF i > Len(raw) THEN acc
                ELSE IF raw[i] = <<>> \/ raw[i] = DOT THEN C[i + 1, acc]
                ELSE IF raw[i] = DOTDOT
                     THEN C[i + 1, IF acc = <<>> THEN acc
                                   ELSE SubSeq(acc, 1, Len(acc) - 1)]
                     ELSE C[i + 1, Append(acc, raw[i])]
        IN C[1, <<>>])

\* X:\ or X:/ at the start of a path
DriveRooted(p) ==
    Len(p) >= 3 /\ IsLetter(p[1]) /\ p[2] = ":" /\ IsSepFor(TRUE, p[3])

\* the path names a directory by itself under the rules of the OS
Absolute(p, win) ==
    p # Undefined /\ (IF win THEN DriveRooted(p) ELSE Len(p) >= 1 /\ p[1] = "/")

\* names are compared without case on Windows
SameName(a, b, win) == IF win THEN ToLowerCase(a) = ToLowerCase(b) ELSE a = b

\* the directory `root` is `path` or one of its ancestors
AtOrBelow(path, root, win) ==
    /\ Len(root) <= Len(path)
    /\ \A i \in 1..Len(root) : SameName(path[i], root[i], win)

\* the names that lead from `root` to `path`
Rest(path, root) == SubSeq(path, Len(root) + 1, Len(path))

\* the path of the client platform that the names spell
Native(segs, plat) ==
    IF plat = "win32"
    THEN (IF Len(segs) = 1 THEN segs[1] \o <<"\\">> ELSE Join(segs, <<"\\">>))
    ELSE <<"/">> \o Join(segs, <<"/">>)

\* the file: URI that the names spell
UriOf(segs) == FILE_SCHEME \o <<"/">> \o Join(segs, <<"/">>)

\* the names with their characters escaped as a URI escapes them
Escaped(segs) == [i \in 1..Len(segs) |-> EncodeURI(segs[i])]

\* a URI without the '/' it may end with
NoTrailingSlash(u) ==
    IF Len(u) > 0 /\ u[Len(u)] = "/" THEN SubSeq(u, 1, Len(u) - 1) ELSE u

\* u and v are one string but for the case of their letters
EqualIgnoringCase(u, v) ==
    Len(u) = Len(v) /\ \A i \in 1..Len(u) : ToLowerChar(u[i]) = ToLowerChar(v[i])

ClientIsWindows == platform = "win32"

\* the path in the URI the debugger sent, and whether it is a Windows path
DecodedPath == decode(UrlPathname(arg))
DecodedIsWindows == ServerIsWindows(DecodedPath)

Returned(f) == pc = "return" /\ fn = f
Selected == serverSourceRoot # Undefined /\ localSourceRoot # Undefined

\* ------------------------------------------------------------ isSameUri

\* file:/// followed by a letter, ':' and '/'
WindowsFileUri(u) ==
    /\ StartsWith(u, FILE_SCHEME \o <<"/">>)
    /\ IsLetter(CharAt(u, 8)) /\ CharAt(u, 9) = ":" /\ CharAt(u, 10) = "/"

\* C6: isSameUri compares the two URIs without regard to case when either of
\* them is a Windows file URI (file:/// followed by a drive letter, ':' and
\* '/'), and character by character otherwise.
C6_SameUri ==
    Returned("isSameUri") =>
        same = (IF WindowsFileUri(arg) \/ WindowsFileUri(arg2)
                THEN EqualIgnoringCase(arg, arg2)
                ELSE arg = arg2)

\* two URIs that differ in case only were found to be the same, only one of
\* them being a Windows file URI
C6_Witness ==
    /\ Returned("isSameUri") /\ same /\ arg # arg2
    /\ WindowsFileUri(arg) # WindowsFileUri(arg2)

\* ------------------------------------------------------------ no applicable mapping

\* the server path the conversion works on: the decoded path, without its
\* leading '/' when it is a Windows path
StrippedPath == IF DecodedIsWindows THEN Tail(DecodedPath) ELSE DecodedPath

\* the path p in the normalized form of the client platform: its names joined
\* by the platform's separator, a leading and a trailing separator kept
NativeForm(p, plat) ==
    LET win == plat = "win32"
        sep == ClientSep(plat)
        segs == Segments(p, win)
    IN (IF IsSepFor(win, p[1]) THEN sep ELSE <<>>)
       \o Join(segs, sep)
       \o (IF IsSepFor(win, p[Len(p)]) /\ segs # <<>> THEN sep ELSE <<>>)

\* the file: URI of a client path by itself: '/' for '\', an upper-case drive
\* letter before ':\' in lower case, the characters escaped
PlainUri(p) ==
    LET drive == Len(p) >= 3 /\ IsUpper(p[1]) /\ p[2] = ":" /\ p[3] = "\\"
        q == [i \in 1..Len(p) |->
                 IF p[i] = "\\" THEN "/"
                 ELSE IF i = 1 /\ drive THEN ToLowerChar(p[i]) ELSE p[i]]
    IN FILE_SCHEME \o (IF q[1] = "/" THEN <<>> ELSE <<"/">>) \o EncodeURI(q)

\* C9: without a pathMapping, with an empty one, or with one none of whose
\* roots matches, no root is substituted: convertDebuggerPathToClient returns
\* the URI's decoded path in the normalized form of the client platform, and
\* convertClientPathToDebugger returns the plain file: URI of localPath.
C9_NoApplicableMapping ==
    /\ (pc = "return" /\ (~pathMapping.given \/ pathMapping.entries = <<>>))
           => ~Selected
    /\ (Returned("convertDebuggerPathToClient") /\ ~Selected)
           => ret = NativeForm(StrippedPath, platform)
    /\ (Returned("convertClientPathToDebugger") /\ ~Selected)
           => ret = PlainUri(arg)

\* a mapping with roots in it, none of which matched, and a path that path
\* normalization changed
C9_Witness ==
    /\ Returned("convertDebuggerPathToClient")
    /\ pathMapping.given /\ pathMapping.entries # <<>> /\ ~Selected
    /\ ret # StrippedPath
    /\ ret = NativeForm(StrippedPath, platform)

\* ------------------------------------------------------------ first match wins

\* the test the loops apply to one entry of the mapping
Matches(e) ==
    IF fn = "convertDebuggerPathToClient"
    THEN NotAbove(ServerRelative(DecodedIsWindows, platform, e.server, StrippedPath))
    ELSE NotAbove(PathRelative(platform, e.local, arg))

\* the first entry in key order that passes the test; 0 when none does
FirstMatch ==
    LET M == {k \in 1..Len(pathMapping.entries) : Matches(pathMapping.entries[k])}
    IN IF M = {} THEN 0 ELSE CHOOSE k \in M : \A j \in M : k <= j

\* the mapping with entry k alone in it
Alone(k) == [given |-> TRUE, entries |-> <<pathMapping.entries[k]>>]

\* what the function called returns for the mapping m
ResultFor(m) ==
    IF fn = "convertDebuggerPathToClient"
    THEN convertDebuggerPathToClient(arg, m, platform).result
    ELSE convertClientPathToDebugger(arg, m, platform).result

\* C4: the entries are tried in the key order of the mapping and the first
\* one that passes the match test is used, whatever later entries match: the
\* roots are that entry's and the result is the one that entry alone gives.
C4_FirstMatchWins ==
    (pc = "return" /\ fn # "isSameUri" /\ pathMapping.given) =>
        LET k == FirstMatch
            e == pathMapping.entries[k]
            lower == fn = "convertClientPathToDebugger"
        IN IF k = 0 THEN ~Selected
           ELSE /\ serverSourceRoot = (IF lower THEN LowerDrive(e.server) ELSE e.server)
                /\ localSourceRoot = (IF lower THEN LowerDrive(e.local) ELSE e.local)
                /\ ret = ResultFor(Alone(k))

\* two entries match, each alone gives another result, the first one was used
C4_Witness ==
    /\ Returned("convertDebuggerPathToClient") /\ ~DecodedIsWindows
    /\ pathMapping.given /\ Len(pathMapping.entries) = 2
    /\ Matches(pathMapping.entries[1]) /\ Matches(pathMapping.entries[2])
    /\ ResultFor(Alone(1)) # ResultFor(Alone(2))
    /\ ret = ResultFor(Alone(1))

\* ------------------------------------------------------------ server to client

\* the names of the server path, of the root chosen for it and of the root
\* that replaces it, under the rules of the server's and the client's OS
ServerPathNames == Segments(DecodedPath, DecodedIsWindows)
ServerRootNames == Segments(serverSourceRoot, DecodedIsWindows)
LocalRootNames == Segments(localSourceRoot, ClientIsWindows)

\* a root was chosen that is the server path's directory or an ancestor of it
ServerPathAtOrBelowRoot ==
    /\ Returned("convertDebuggerPathToClient") /\ Selected
    /\ Absolute(serverSourceRoot, DecodedIsWindows)
    /\ Absolute(localSourceRoot, ClientIsWindows)
    /\ AtOrBelow(ServerPathNames, ServerRootNames, DecodedIsWindows)

\* C1: for a server path at or below the matching server root R, with client
\* root L, convertDebuggerPathToClient returns L followed by the names that
\* lead from R to the path, in the form of the client platform; for R itself
\* it returns L.
C1_ServerToClient ==
    ServerPathAtOrBelowRoot =>
        ret = Native(LocalRootNames \o Rest(ServerPathNames, ServerRootNames),
                     platform)

ExampleUri == <<"f", "i", "l", "e", ":", "/", "/", "/", "C", ":", "/", "i", "n", "e", "t", "p", "u", "b", "/", "s", "i", "t", "e", "/", "i", "n", "d", "e", "x", ".", "p", "h", "p">>
ExampleLocalRoot == <<"C", ":", "\\", "w", "a", "m", "p", "\\", "w", "w", "w">>
ExampleResult == <<"C", ":", "\\", "w", "a", "m", "p", "\\", "w", "w", "w", "\\", "s", "i", "t", "e", "\\", "i", "n", "d", "e", "x", ".", "p", "h", "p">>
ExampleMapping(key) ==
    [given |-> TRUE, entries |-> <<[server |-> key, local |-> ExampleLocalRoot]>>]

ClientPathNames == Segments(arg, ClientIsWindows)
ServerRootIsWindows == serverSourceRoot # Undefined /\ DriveRooted(serverSourceRoot)
ChosenServerNames == Segments(serverSourceRoot, ServerRootIsWindows)

\* convertClientPathToDebugger chose a root that is the client path's
\* directory or an ancestor of it
ClientPathAtOrBelowRoot ==
    /\ fn = "convertClientPathToDebugger" /\ pc # "call" /\ Selected
    /\ Absolute(localSourceRoot, ClientIsWindows)
    /\ Absolute(serverSourceRoot, ServerRootIsWindows)
    /\ AtOrBelow(ClientPathNames, LocalRootNames, ClientIsWindows)

\* the URIs of a server directory are compared without case when the server
\* root is a Windows path
SameServerUri(u, v) ==
    IF ServerRootIsWindows THEN EqualIgnoringCase(u, v) ELSE u = v

\* C2: for a client path below the matching client root L, with server root
\* R, convertClientPathToDebugger returns the file: URI of R followed by the
\* escaped names that lead from L to the path.
C2_ClientToServer ==
    (pc = "return" /\ ClientPathAtOrBelowRoot
     /\ Len(ClientPathNames) > Len(LocalRootNames))
        => SameServerUri(
               NoTrailingSlash(ret),
               UriOf(ChosenServerNames
                     \o Escaped(Rest(ClientPathNames, LocalRootNames))))

\* C3: for a client path that is the matching client root itself,
\* convertClientPathToDebugger returns the URI of the server root with its
\* trailing slash.
C3_ExactClientRoot ==
    (pc = "return" /\ ClientPathAtOrBelowRoot
     /\ Len(ClientPathNames) = Len(LocalRootNames))
        => SameServerUri(ret, UriOf(ChosenServerNames) \o <<"/">>)

\* two paths spell the same names, whatever the separators, the case of the
\* letters and the separator at the end
Equivalent(p, q) ==
    LET a == Segments(p, TRUE)
        b == Segments(q, TRUE)
    IN Len(a) = Len(b) /\ \A i \in 1..Len(a) : EqualIgnoringCase(a[i], b[i])

\* C5: a client path at or below a mapped client root, converted to a server
\* URI and back with the same mapping, is a path equivalent to the one the
\* round trip started from.
C5_RoundTrip ==
    (pc = "back" /\ ClientPathAtOrBelowRoot) => Equivalent(back, arg)

\* file:/// followed by an upper-case letter and ':'
UpperDriveUri(u) ==
    /\ StartsWith(u, FILE_SCHEME \o <<"/">>)
    /\ IsUpper(CharAt(u, 8)) /\ CharAt(u, 9) = ":"

\* C8: for a localPath that starts with a drive letter and ':\', the URI that
\* convertClientPathToDebugger returns carries no upper-case drive letter,
\* whether a mapping entry applies or not.
C8_LowerCaseDrive ==
    (Returned("convertClientPathToDebugger")
     /\ Len(arg) >= 3 /\ IsLetter(arg[1]) /\ arg[2] = ":" /\ arg[3] = "\\")
        => ~UpperDriveUri(ret)

\* ------------------------------------------------------------ the match criterion

\* the one root of a mapping of one entry that the function called looks at,
\* and whether the path is that directory or below it
OnlyRoot ==
    IF fn = "convertDebuggerPathToClient"
    THEN pathMapping.entries[1].server
    ELSE pathMapping.entries[1].local
PathRulesAreWindows ==
    IF fn = "convertDebuggerPathToClient" THEN DecodedIsWindows ELSE ClientIsWindows
PathIsAtOrBelowOnlyRoot ==
    AtOrBelow(IF fn = "convertDebuggerPathToClient"
              THEN ServerPathNames ELSE ClientPathNames,
              Segments(OnlyRoot, PathRulesAreWindows),
              PathRulesAreWindows)

\* C10: an entry is selected exactly when the path is at or below its root: a
\* root that is neither the path nor an ancestor of it is never selected, a
\* root on another drive included, and a root that is one is never rejected,
\* a name beginning with '..' right below the root included.
C10_MatchCriterion ==
    (pc = "return" /\ fn # "isSameUri"
     /\ pathMapping.given /\ Len(pathMapping.entries) = 1
     /\ Absolute(OnlyRoot, PathRulesAreWindows))
        => (Selected <=> PathIsAtOrBelowOnlyRoot)
====
